---- MODULE Spec2Model ----
(***************************************************************************)
(* RelayXClient (src/src/index.ts): the postMessage request/response       *)
(* correlation layer.  The state is the static listener bookkeeping of the *)
(* class, every instance's pending-call registry, the browser's armed      *)
(* timers and window listeners, the promises handed to callers and the     *)
(* messages posted to the host.  Every handler runs to completion (one     *)
(* event loop), so each is one action.                                     *)
(***************************************************************************)
EXTENDS Integers, Sequences, FiniteSets, TLC

\* ---------------------------------------------------------------- bounds
MaxOps == 4         \* calls of the API (constructor, sendMessage, destroy)
                    \* the application makes in one run
MaxCallOps == 3     \* the same count in the runs that vary the input of
                    \* sendMessage: one constructor and two calls
MaxRawBytes == 24   \* raw image sizes 0 .. MaxRawBytes are encoded, besides
                    \* the sizes around the upload limit
MaxTeardownCalls == 1   \* calls made in the runs that begin after a full
                        \* teardown

\* ------------------------------------------------------- program constants
InvalidPayload == 30001
MissingCertificate == 30002
InvalidCertificate == 30003
methodNotFound == 30004
ExceededUploadSizeLimit == 30010
TimeoutError == 30011
DefaultTimeoutMs == 30000
MaxUrlLength == 200
SuccessCode == 200
maxSizeInBytes == 1048576
ShortTimeoutMs == 5000   \* a timeout a caller may pass in the config

\* ------------------------------------------------------------- JS values
\* Every JavaScript value is a record tagged with its typeof-like kind.  A
\* string is a sequence of chunks; text the code inspects is one character
\* per chunk, a name the code only compares (a command, a UUID) is one chunk.
Undefined == [t |-> "undefined"]
Null == [t |-> "null"]
Str(cs) == [t |-> "string", v |-> cs]
Num(n) == [t |-> "number", v |-> n]
Bool(b) == [t |-> "boolean", v |-> b]
Obj(f) == [t |-> "object", f |-> f]
Arr(items) == [t |-> "array", items |-> items]
EmptyObj == Obj(<<>>)

\* A long string: chunk k of cs stands for ns[k] repetitions of its character.
Text(cs, ns) == [t |-> "string", v |-> cs, n |-> ns]

RECURSIVE Ones(_)
Ones(n) == IF n = 0 THEN <<>> ELSE Append(Ones(n - 1), 1)

\* The repetitions of the chunks of a string value (1 where none are given).
RunsOf(v) == IF "n" \in DOMAIN v THEN v.n ELSE Ones(Len(v.v))

\* typeof v
TypeOf(v) == IF v.t \in {"null", "array"} THEN "object" ELSE v.t

IsObject(v) == v.t = "object"
IsString(v) == TypeOf(v) = "string"
\* Array.isArray(v)
IsArray(v) == v.t = "array"

\* !!v
Truthy(v) ==
  CASE v.t = "undefined" -> FALSE
    [] v.t = "null" -> FALSE
    [] v.t = "string" -> v.v # <<>>
    [] v.t = "number" -> v.v # 0
    [] v.t = "boolean" -> v.v
    [] OTHER -> TRUE

\* payload?.key and payload.key on a value that is not null or undefined
Get(v, key) ==
  IF IsObject(v) /\ key \in DOMAIN v.f THEN v.f[key] ELSE Undefined

\* key in v, for a v that is an object or an array
Has(v, key) == IsObject(v) /\ key \in DOMAIN v.f

\* A value on which the in operator raises a TypeError.
IsPrimitive(v) == v.t \in {"string", "number", "boolean"}

Whitespace == {" ", "\t", "\n"}

\* s.trim()
RECURSIVE TrimLeft(_)
TrimLeft(cs) ==
  IF cs # <<>> /\ Head(cs) \in Whitespace THEN TrimLeft(Tail(cs)) ELSE cs

RECURSIVE TrimRight(_)
TrimRight(cs) ==
  IF cs # <<>> /\ cs[Len(cs)] \in Whitespace
  THEN TrimRight(SubSeq(cs, 1, Len(cs) - 1))
  ELSE cs

Trim(cs) == TrimRight(TrimLeft(cs))

\* s.startsWith(p)
StartsWith(cs, p) == Len(cs) >= Len(p) /\ SubSeq(cs, 1, Len(p)) = p

HttpsPrefix == <<"h", "t", "t", "p", "s", ":", "/", "/">>

DataImagePrefix == <<"d", "a", "t", "a", ":", "i", "m", "a", "g", "e", "/">>

\* ------------------------------------------------------------------ state
VARIABLES
  instances,        \* number of RelayXClient objects constructed: 1..instances
  destroyCalls,     \* per instance, the number of destroy() calls made on it
  defaultTimeout,   \* per instance, this.defaultTimeout
  instanceCount,    \* RelayXClient.instanceCount
  listenerFn,       \* RelayXClient.listenerFn: NoListener, or the instance
                    \* its messageHandler is bound to
  windowListeners,  \* the window's "message" listeners, in registration order
  messageCallbacks, \* per instance, this.messageCallbacks: key -> entry
  timers,           \* the browser's armed timers (set by window.setTimeout)
  nextTimerId,      \* the handle the next window.setTimeout returns
  nextMessageId,    \* the next value of generateUniqueMessageId
  calls,            \* the promises handed to callers, in call order
  posted,           \* the messages handed to window.parent.postMessage
  imageSize         \* history: the argument and the result of the latest
                    \* getBase64ImageSize call

vars == <<instances, destroyCalls, defaultTimeout, instanceCount, listenerFn,
          windowListeners, messageCallbacks, timers, nextTimerId,
          nextMessageId, calls, posted, imageSize>>

NoListener == 0     \* listenerFn === null
NoTimer == 0        \* an entry without a timeoutId
NoOption == -1      \* a config without the timeout option
NotMeasured == [base64String |-> Undefined, bytes |-> 0]

Inst == 1 .. instances

\* The number of API calls made so far.
RECURSIVE Sum(_)
Sum(ns) == IF ns = <<>> THEN 0 ELSE Head(ns) + Sum(Tail(ns))

Ops == instances + Len(calls) + Sum(destroyCalls)

\* The k-th identifier generateUniqueMessageId returns: UUIDs are taken to be
\* unique, so the generator is a counter.
Token(n) == <<ToString(n)>>

\* Keys every object literal inherits from Object.prototype: a lookup
\* this.messageCallbacks[key] finds them although they are not own keys.
InheritedKeys == {<<"constructor">>}

\* The mutable state the handlers work on, as one value; uncaught tells
\* whether the handler that ran raised an error nothing catches, raised
\* whether the function that ran threw to its caller.
State ==
  [cb |-> messageCallbacks, timers |-> timers, nextTimerId |-> nextTimerId,
   nextMessageId |-> nextMessageId, calls |-> calls, posted |-> posted,
   uncaught |-> FALSE, instanceCount |-> instanceCount,
   listenerFn |-> listenerFn, windowListeners |-> windowListeners,
   sized |-> imageSize, raised |-> FALSE]

Becomes(s) ==
  /\ messageCallbacks' = s.cb
  /\ timers' = s.timers
  /\ nextTimerId' = s.nextTimerId
  /\ nextMessageId' = s.nextMessageId
  /\ calls' = s.calls
  /\ posted' = s.posted
  /\ instanceCount' = s.instanceCount
  /\ listenerFn' = s.listenerFn
  /\ windowListeners' = s.windowListeners
  /\ imageSize' = s.sized

\* ---------------------------------------------------------------- promises
\* new Promise(...): pending, its continuations not yet invoked.  key is the
\* token _sendMessage minted for the call (empty for a promise made without
\* one).  Three fields are history: by, the path that settled the promise,
\* replied, whether a message carrying the call's token reached the window
\* while the call was pending, and arg, the payload the caller passed to
\* sendMessage.
NewCall(i, cmd, key) ==
  [inst |-> i, cmd |-> cmd, key |-> key, state |-> "pending",
   value |-> Undefined, resolves |-> 0, rejects |-> 0, by |-> "none",
   replied |-> FALSE, arg |-> Undefined]

\* resolve(value) of promise k: every invocation is counted, only the first
\* settlement of the promise takes effect.
resolve(cs, k, value, by) ==
  [cs EXCEPT ![k] =
     [@ EXCEPT !.resolves = @ + 1,
               !.state = IF cs[k].state = "pending" THEN "resolved" ELSE @,
               !.value = IF cs[k].state = "pending" THEN value ELSE @,
               !.by = IF cs[k].state = "pending" THEN by ELSE @]]

\* reject(reason) of promise k.
reject(cs, k, reason, by) ==
  [cs EXCEPT ![k] =
     [@ EXCEPT !.rejects = @ + 1,
               !.state = IF cs[k].state = "pending" THEN "rejected" ELSE @,
               !.value = IF cs[k].state = "pending" THEN reason ELSE @,
               !.by = IF cs[k].state = "pending" THEN by ELSE @]]

\* ----------------------------------------------------------------- helpers
\* handleError: the response is { code, messageId }; the message it computes
\* is not put in the response (no caller passes data).
handleError(cmd, messageId, code, message) ==
  Obj("code" :> Num(code) @@ "messageId" :> messageId)

\* The position of the first "," chunk at or after position k, 0 if none.
RECURSIVE CommaFrom(_, _)
CommaFrom(cs, k) ==
  IF k > Len(cs) THEN 0
  ELSE IF cs[k] = "," THEN k
  ELSE CommaFrom(cs, k + 1)

\* base64String.split(',')[1]: the text between the first comma and the
\* second one (or the end); without a comma it is undefined, which is falsy
\* as the empty string is.
SecondSegment(v) ==
  LET cs == v.v
      ns == RunsOf(v)
      first == CommaFrom(cs, 1)
  IN IF first = 0 \/ ns[first] > 1
     THEN Text(<<>>, <<>>)
     ELSE LET next == CommaFrom(cs, first + 1)
              last == IF next = 0 THEN Len(cs) ELSE next - 1
          IN Text(SubSeq(cs, first + 1, last), SubSeq(ns, first + 1, last))

\* base64.replace(/\s/g, '')
RECURSIVE StripFrom(_, _, _)
StripFrom(cs, ns, k) ==
  IF k > Len(cs) THEN Text(<<>>, <<>>)
  ELSE LET rest == StripFrom(cs, ns, k + 1) IN
       IF cs[k] \in Whitespace THEN rest
       ELSE Text(<<cs[k]>> \o rest.v, <<ns[k]>> \o rest.n)

StripWhitespace(v) == StripFrom(v.v, RunsOf(v), 1)

\* base64.match(/=*$/)[0].length
RECURSIVE TrailingPadding(_, _, _)
TrailingPadding(cs, ns, k) ==
  IF k = 0 \/ cs[k] # "=" THEN 0
  ELSE ns[k] + TrailingPadding(cs, ns, k - 1)

\* s.length
Length(v) == Sum(RunsOf(v))

\* getBase64ImageSize(base64String).bytes (kb and mb are read by no caller)
getBase64ImageSize(base64String) ==
  LET segment == SecondSegment(base64String)
      base64 == StripWhitespace(IF segment.v # <<>> THEN segment
                                ELSE base64String)
      padding == TrailingPadding(base64.v, base64.n, Len(base64.v))
  IN (3 * Length(base64) - 4 * padding) \div 4

\* window.clearTimeout(id)
clearTimeout(tms, id) == {t \in tms : t.id # id}

\* delete reg[key]
Delete(reg, key) == [k \in DOMAIN reg \ {key} |-> reg[k]]

\* cleanupCallback without its clearTimeout: the entry goes, the timer stays.
cleanupCallbackKeepsTimer(s, i, key) ==
  IF key # <<>> /\ key \in DOMAIN s.cb[i]
  THEN [s EXCEPT !.cb = [@ EXCEPT ![i] = Delete(s.cb[i], key)]]
  ELSE s

\* cleanupCallback on instance i
cleanupCallback(s, i, key) ==
  LET reg == s.cb[i] IN
  IF key = <<>> \/ (key \notin DOMAIN reg /\ key \notin InheritedKeys)
  THEN s
  ELSE IF key \in DOMAIN reg
  THEN [s EXCEPT
          !.timers = IF reg[key].timeoutId # NoTimer
                     THEN clearTimeout(@, reg[key].timeoutId)
                     ELSE @,
          !.cb = [@ EXCEPT ![i] = Delete(reg, key)]]
  ELSE s    \* an inherited key: no timeoutId, and delete leaves it

\* handleTimeout that passes no code to handleError, which then uses its
\* default.
handleTimeoutDefaultCode(s, i, key, cmd) ==
  LET reg == s.cb[i] IN
  IF key \in DOMAIN reg
  THEN cleanupCallback(
         [s EXCEPT !.calls = resolve(@, reg[key].resolve,
                     handleError(cmd, Str(key), InvalidPayload, "Request timed out"),
                     "timeout")],
         i, key)
  ELSE s

\* handleTimeout on instance i
handleTimeout(s, i, key, cmd) ==
  LET reg == s.cb[i] IN
  IF key \in DOMAIN reg
  THEN cleanupCallback(
         [s EXCEPT !.calls = resolve(@, reg[key].resolve,
                     handleError(cmd, Str(key), TimeoutError, "Request timed out"),
                     "timeout")],
         i, key)
  ELSE IF key \in InheritedKeys
  THEN [s EXCEPT !.uncaught = TRUE]   \* callback.resolve is not a function
  ELSE s

\* messageHandler that settles the call and leaves its entry and timer.
messageHandlerKeepsEntry(s, i, result) ==
  IF Truthy(result) /\ TypeOf(result) = "object"
     /\ IsString(Get(result, "messageId"))
     /\ Get(result, "messageId").v \in DOMAIN s.cb[i]
  THEN [s EXCEPT !.calls = resolve(@, s.cb[i][Get(result, "messageId").v].resolve,
                                   result, "reply")]
  ELSE s

\* messageHandler that settles whichever call is pending when the key of the
\* message is not in the registry.
messageHandlerAnyPending(s, i, result) ==
  IF Truthy(result) /\ TypeOf(result) = "object"
     /\ IsString(Get(result, "messageId")) /\ DOMAIN s.cb[i] # {}
  THEN LET given == Get(result, "messageId").v
           key == IF given \in DOMAIN s.cb[i] THEN given
                  ELSE CHOOSE other \in DOMAIN s.cb[i] : TRUE
       IN [cleanupCallback(s, i, key) EXCEPT
             !.calls = resolve(@, s.cb[i][key].resolve, result, "reply")]
  ELSE s

\* messageHandler on instance i, for an event whose data is result
messageHandler(s, i, result) ==
  IF Truthy(result) /\ TypeOf(result) = "object"
     /\ IsString(Get(result, "messageId"))
  THEN LET key == Get(result, "messageId").v
           reg == s.cb[i]
       IN IF key \in DOMAIN reg
          THEN [cleanupCallback(s, i, key) EXCEPT
                  !.calls = resolve(@, reg[key].resolve, result, "reply")]
          ELSE IF key \in InheritedKeys
          THEN [s EXCEPT !.uncaught = TRUE] \* callback.resolve is not a function
          ELSE s
  ELSE s

\* ------------------------------------------------------ message delivery
\* The reply the host sends to the call with this key.
ReplyTo(key) ==
  Obj("code" :> Num(SuccessCode) @@ "messageId" :> Str(key)
      @@ "data" :> Obj("ok" :> Bool(TRUE)))

\* The window invokes its listeners in registration order; a listener is the
\* messageHandler of the instance it is bound to.
RECURSIVE dispatchEvent(_, _, _)
dispatchEvent(s, ls, data) ==
  IF ls = <<>> THEN s
  ELSE dispatchEvent(messageHandler(s, Head(ls), data), Tail(ls), data)

\* History: the pending calls whose token the message carries are marked.
RECURSIVE MarkFrom(_, _, _)
MarkFrom(cs, data, k) ==
  IF k > Len(cs) THEN cs
  ELSE MarkFrom(IF /\ cs[k].state = "pending"
                   /\ IsObject(data)
                   /\ Get(data, "messageId") = Str(cs[k].key)
                THEN [cs EXCEPT ![k].replied = TRUE]
                ELSE cs,
                data, k + 1)

MarkReplied(cs, data) == MarkFrom(cs, data, 1)

\* The state after a message event with this data has been dispatched to the
\* window's listeners.
deliver(s, data) ==
  dispatchEvent([s EXCEPT !.calls = MarkReplied(@, data)],
                s.windowListeners, data)

\* ------------------------------------------------------- transport adapter
\* The host as one call finds it: window.parent present and postMessage
\* returning, window.parent absent, or postMessage raising (a DataCloneError
\* for a payload that cannot be cloned, for one).
HostBehaviours == {"reachable", "absent", "throws"}

\* A host whose postMessage hands the reply to the window's listeners before
\* it returns (a parent object that answers in place, as a synchronous
\* bridge or a test double does).
EchoingHost == "echoes"

\* The test of _sendMessage with scanQRCode left out of it.
OnlyOpenURL == {"openURL"}

\* Commands whose pending call gets no timer.
NoTimeoutCommands == {"openURL", "scanQRCode"}

\* { cmd, messageId, ...payload }: the payload's own keys are spread last.
OutgoingMessage(cmd, key, payload) ==
  Obj((IF IsObject(payload) THEN payload.f ELSE <<>>)
      @@ ("cmd" :> Str(<<cmd>>) @@ "messageId" :> Str(key)))

\* cleanupAndResolve that settles the promise through its reject.
cleanupAndResolveRejects(s, i, k, key, error) ==
  [cleanupCallback(s, i, key) EXCEPT !.calls = reject(@, k, error, "nohost")]

\* cleanupAndResolve(error), the closure of the promise k with this key
cleanupAndResolve(s, i, k, key, error) ==
  [cleanupCallback(s, i, key) EXCEPT !.calls = resolve(@, k, error, "nohost")]

\* _sendMessage on instance i: the promise it returns is calls[k].
_sendMessage(s, i, cmd, payload, timeoutMs, host) ==
  LET k == Len(s.calls) + 1
      key == Token(s.nextMessageId)
      message == OutgoingMessage(cmd, key, payload)
      s0 == [s EXCEPT !.calls = Append(@, NewCall(i, cmd, key)),
                      !.nextMessageId = @ + 1]
  IN CASE host = "absent" ->
            \* cleanupCallback finds nothing to remove
            cleanupAndResolve(s0, i, k, key,
              handleError(cmd, Str(key), InvalidPayload,
                "Unable to send message to parent window. Parent window not found."))
       [] host = "throws" ->
            \* the executor raises: the promise is rejected with the exception
            [s0 EXCEPT !.calls = reject(@, k, [t |-> "exception"], "throw")]
       [] host \in {"reachable", EchoingHost} ->
            \* postMessage runs first, and with it whatever the host does
            \* before returning; the entry is stored after it
            LET timed == cmd \notin NoTimeoutCommands
                entry == [resolve |-> k, reject |-> k,
                          timeoutId |-> IF timed THEN s.nextTimerId ELSE NoTimer]
                sent == [s0 EXCEPT !.posted = Append(@, message)]
                s1 == IF host = EchoingHost THEN deliver(sent, ReplyTo(key))
                      ELSE sent
            IN [s1 EXCEPT
                  !.cb = [@ EXCEPT ![i] = (key :> entry) @@ @],
                  !.timers = IF timed
                             THEN @ \cup {[id |-> s.nextTimerId, inst |-> i,
                                           messageId |-> key, cmd |-> cmd,
                                           delay |-> timeoutMs]}
                             ELSE @,
                  !.nextTimerId = IF timed THEN @ + 1 ELSE @]

\* Promise.resolve(response): the promise a local rejection returns.
PromiseResolve(s, i, cmd, response, by) ==
  [s EXCEPT !.calls = resolve(Append(@, NewCall(i, cmd, <<>>)), Len(@) + 1,
                              response, by)]

\* this.generateUniqueMessageId() alone as the label of a rejection.
LabelOfAlwaysFresh(s, payload) ==
  [id |-> Str(Token(s.nextMessageId)),
   s |-> [s EXCEPT !.nextMessageId = @ + 1]]

\* payload?.messageId || this.generateUniqueMessageId(): the label of a
\* rejection, and the state after minting it when the caller gave none.
LabelOf(s, payload) ==
  IF Truthy(Get(payload, "messageId"))
  THEN [id |-> Get(payload, "messageId"), s |-> s]
  ELSE [id |-> Str(Token(s.nextMessageId)),
        s |-> [s EXCEPT !.nextMessageId = @ + 1]]

\* -------------------------------------------------------------- validators
\* typeof v === 'string' && v.trim() is not empty
NonEmptyString(v) == IsString(v) /\ Trim(v.v) # <<>>

\* The test of openURL that rejects a url of exactly the limit.
openURLRejectsAtLimit(payload) ==
  \/ ~Truthy(payload)
  \/ ~IsString(Get(payload, "url"))
  \/ ~StartsWith(Get(payload, "url").v, HttpsPrefix)
  \/ Length(Get(payload, "url")) >= MaxUrlLength
  \/ Trim(Get(payload, "url").v) = <<>>
  \/ (Get(payload, "useSystemOpen") # Undefined
      /\ TypeOf(Get(payload, "useSystemOpen")) # "boolean")

openURLRejects(payload) ==
  \/ ~Truthy(payload)
  \/ ~IsString(Get(payload, "url"))
  \/ ~StartsWith(Get(payload, "url").v, HttpsPrefix)
  \/ Length(Get(payload, "url")) > MaxUrlLength
  \/ Trim(Get(payload, "url").v) = <<>>
  \/ (Get(payload, "useSystemOpen") # Undefined
      /\ TypeOf(Get(payload, "useSystemOpen")) # "boolean")

copyToClipboardRejects(payload) ==
  ~Truthy(payload) \/ ~NonEmptyString(Get(payload, "text"))

generateSignatureRejects(payload) ==
  ~Truthy(payload) \/ ~NonEmptyString(Get(payload, "message"))

verifySignatureRejects(payload) ==
  \/ ~Truthy(payload)
  \/ ~IsString(Get(payload, "message"))
  \/ ~IsString(Get(payload, "signature"))
  \/ Trim(Get(payload, "message").v) = <<>>
  \/ Trim(Get(payload, "signature").v) = <<>>

encryptRejects(payload) ==
  ~Truthy(payload) \/ ~NonEmptyString(Get(payload, "message"))

decryptRejects(payload) ==
  ~Truthy(payload) \/ ~NonEmptyString(Get(payload, "content"))

connectCocoPayRejects(payload) ==
  \/ ~Truthy(payload)
  \/ ~IsArray(Get(payload, "chainList"))
  \/ (Get(payload, "walletSupports") # Undefined
      /\ ~IsArray(Get(payload, "walletSupports")))

\* The first test of saveImage: the image is a non-blank data:image/ string.
saveImageRejects(payload) ==
  \/ ~Truthy(payload)
  \/ ~IsString(Get(payload, "image"))
  \/ Trim(Get(payload, "image").v) = <<>>
  \/ ~StartsWith(Get(payload, "image").v, DataImagePrefix)

\* The test of getAccount, for a payload the in operator accepts.
getAccountRejects(payload) ==
  /\ Truthy(payload)
  /\ Has(payload, "type")
  /\ (~IsString(Get(payload, "type")) \/ Get(payload, "type").v # <<"1">>)

\* The test of setExtendedData, for a payload the in operator accepts.
setExtendedDataRejects(payload) ==
  \/ ~Truthy(payload)
  \/ ~Has(payload, "extend")
  \/ Get(payload, "extend").t = "null"
  \/ IsArray(Get(payload, "extend"))
  \/ TypeOf(Get(payload, "extend")) \notin {"object", "string"}

registerServiceRejects(payload) ==
  ~Truthy(payload) \/ ~NonEmptyString(Get(payload, "serviceKey"))

HTTP == <<"H", "T", "T", "P">>

sendServiceMessageRejects(payload) ==
  \/ ~Truthy(payload)
  \/ TypeOf(Get(payload, "content")) # "object"
  \/ IsArray(Get(payload, "content"))
  \/ ~IsString(Get(payload, "type"))
  \/ Trim(Get(payload, "type").v) = <<>>
  \/ Get(payload, "type").v # HTTP

\* validateSigInfo: the error code, or 0 for { isValid: true }.
validateSigInfo(sigInfo) ==
  IF ~Truthy(sigInfo) THEN MissingCertificate
  ELSE IF \/ ~IsString(Get(sigInfo, "content"))
          \/ ~IsString(Get(sigInfo, "signature"))
          \/ Trim(Get(sigInfo, "content").v) = <<>>
          \/ Trim(Get(sigInfo, "signature").v) = <<>>
  THEN InvalidCertificate
  ELSE 0

\* The command table: the type of every command.
commandMap ==
  [connectCocoPay |-> "payload",
   getSafeAreaInsets |-> "callbackOnly", getLanguage |-> "callbackOnly",
   openURL |-> "payload", scanQRCode |-> "callbackOnly",
   copyToClipboard |-> "payload", saveImage |-> "payload",
   getAccount |-> "payload", setExtendedData |-> "payload",
   getExtendedData |-> "callbackOnly",
   generateSignature |-> "payload", verifySignature |-> "payload",
   encrypt |-> "payload", decrypt |-> "payload",
   registerService |-> "payloadAndSign", checkServiceStatus |-> "signOnly",
   sendServiceMessage |-> "payloadAndSign"]

\* Names this.commandMap[cmd] finds on Object.prototype: the value is truthy
\* and its type is undefined.
InheritedNames == {"constructor", "toString"}

\* Whether the validator of a "payload" command with one test and one error
\* code rejects the payload.
Rejects(cmd, payload) ==
  CASE cmd = "openURL" -> openURLRejects(payload)
    [] cmd = "copyToClipboard" -> copyToClipboardRejects(payload)
    [] cmd = "generateSignature" -> generateSignatureRejects(payload)
    [] cmd = "verifySignature" -> verifySignatureRejects(payload)
    [] cmd = "encrypt" -> encryptRejects(payload)
    [] cmd = "decrypt" -> decryptRejects(payload)
    [] cmd = "connectCocoPay" -> connectCocoPayRejects(payload)

\* The handler of a "callbackOnly" command that sends no data field.
CallbackOnlyHandlerBare(s, i, cmd, host) ==
  _sendMessage(s, i, cmd, EmptyObj, defaultTimeout[i], host)

\* The handler of a "callbackOnly" command.
CallbackOnlyHandler(s, i, cmd, host) ==
  _sendMessage(s, i, cmd, Obj("data" :> EmptyObj), defaultTimeout[i], host)

\* The handler of a "payload" command with one test and one error code.
PayloadHandler(s, i, cmd, payload, host) ==
  LET l == LabelOf(s, payload) IN
  IF Rejects(cmd, payload)
  THEN PromiseResolve(l.s, i, cmd,
         handleError(cmd, l.id, InvalidPayload, "Invalid payload"), "local")
  ELSE _sendMessage(l.s, i, cmd, Obj("data" :> payload), defaultTimeout[i], host)

\* throw: the function that was running returns nothing to its caller.
Raise(s) == [s EXCEPT !.raised = TRUE]

\* saveImage that rejects an image of exactly the limit.
saveImageExclusive(s, i, payload, host) ==
  LET l == LabelOf(s, payload) IN
  IF saveImageRejects(payload)
  THEN PromiseResolve(l.s, i, "saveImage",
         handleError("saveImage", l.id, InvalidPayload, "Invalid image data"),
         "local")
  ELSE LET image == Get(payload, "image")
           bytes == getBase64ImageSize(image)
           measured == [l.s EXCEPT !.sized = [base64String |-> image,
                                              bytes |-> bytes]]
       IN IF bytes >= maxSizeInBytes
          THEN PromiseResolve(measured, i, "saveImage",
                 handleError("saveImage", l.id, ExceededUploadSizeLimit,
                             "Image size exceeds limit"), "local")
          ELSE _sendMessage(measured, i, "saveImage", Obj("data" :> payload),
                            defaultTimeout[i], host)

\* saveImage: the size routine works on any string, so its catch never runs.
saveImage(s, i, payload, host) ==
  LET l == LabelOf(s, payload) IN
  IF saveImageRejects(payload)
  THEN PromiseResolve(l.s, i, "saveImage",
         handleError("saveImage", l.id, InvalidPayload, "Invalid image data"),
         "local")
  ELSE LET image == Get(payload, "image")
           bytes == getBase64ImageSize(image)
           measured == [l.s EXCEPT !.sized = [base64String |-> image,
                                              bytes |-> bytes]]
       IN IF bytes > maxSizeInBytes
          THEN PromiseResolve(measured, i, "saveImage",
                 handleError("saveImage", l.id, ExceededUploadSizeLimit,
                             "Image size exceeds limit"), "local")
          ELSE _sendMessage(measured, i, "saveImage", Obj("data" :> payload),
                            defaultTimeout[i], host)

\* getAccount: 'type' in payload raises a TypeError for a truthy primitive.
getAccount(s, i, payload, host) ==
  LET l == LabelOf(s, payload) IN
  IF Truthy(payload) /\ IsPrimitive(payload) THEN Raise(l.s)
  ELSE IF getAccountRejects(payload)
  THEN PromiseResolve(l.s, i, "getAccount",
         handleError("getAccount", l.id, InvalidPayload, "Invalid account type"),
         "local")
  ELSE _sendMessage(l.s, i, "getAccount",
         Obj("data" :> IF Truthy(payload) THEN payload ELSE EmptyObj),
         defaultTimeout[i], host)

\* setExtendedData: 'extend' in payload raises a TypeError for a truthy
\* primitive.
setExtendedData(s, i, payload, host) ==
  LET l == LabelOf(s, payload) IN
  IF Truthy(payload) /\ IsPrimitive(payload) THEN Raise(l.s)
  ELSE IF setExtendedDataRejects(payload)
  THEN PromiseResolve(l.s, i, "setExtendedData",
         handleError("setExtendedData", l.id, InvalidPayload,
                     "Invalid extended data format"), "local")
  ELSE _sendMessage(l.s, i, "setExtendedData", Obj("data" :> payload),
                    defaultTimeout[i], host)

\* The handler of a command checked by validateSigInfo after its own test
\* (rejected tells the outcome of that test): the outgoing payload is
\* { data, sign: sigInfo }.
SignedHandler(s, i, cmd, label, rejected, data, sigInfo, host) ==
  IF rejected
  THEN PromiseResolve(s, i, cmd,
         handleError(cmd, label, InvalidPayload, "Invalid payload"), "local")
  ELSE IF validateSigInfo(sigInfo) # 0
  THEN PromiseResolve(s, i, cmd,
         handleError(cmd, label, validateSigInfo(sigInfo),
                     "Invalid signature info"), "local")
  ELSE _sendMessage(s, i, cmd, Obj("data" :> data @@ "sign" :> sigInfo),
                    defaultTimeout[i], host)

registerService(s, i, payload, sigInfo, host) ==
  LET l == LabelOf(s, payload) IN
  SignedHandler(l.s, i, "registerService", l.id,
                registerServiceRejects(payload), payload, sigInfo, host)

\* checkServiceStatus has no test of its own and sends an empty data.
checkServiceStatus(s, i, sigInfo, host) ==
  LET l == LabelOf(s, sigInfo) IN
  SignedHandler(l.s, i, "checkServiceStatus", l.id, FALSE, EmptyObj, sigInfo,
                host)

sendServiceMessage(s, i, payload, sigInfo, host) ==
  LET l == LabelOf(s, payload) IN
  SignedHandler(l.s, i, "sendServiceMessage", l.id,
                sendServiceMessageRejects(payload), payload, sigInfo, host)

\* commandHandler.handler(...) for a command of type "payload"
TypedPayloadHandler(s, i, cmd, payload, host) ==
  CASE cmd = "saveImage" -> saveImage(s, i, payload, host)
    [] cmd = "getAccount" -> getAccount(s, i, payload, host)
    [] cmd = "setExtendedData" -> setExtendedData(s, i, payload, host)
    [] OTHER -> PayloadHandler(s, i, cmd, payload, host)

\* The switch of sendMessage: payload.data and payload.sign raise a
\* TypeError for a null payload.
Invoke(s, i, cmd, payload, host) ==
  CASE commandMap[cmd] = "callbackOnly" -> CallbackOnlyHandler(s, i, cmd, host)
    [] commandMap[cmd] = "payload" ->
         TypedPayloadHandler(s, i, cmd, payload, host)
    [] commandMap[cmd] = "payloadAndSign" ->
         IF payload.t = "null" THEN Raise(s)
         ELSE IF cmd = "registerService"
         THEN registerService(s, i, Get(payload, "data"), Get(payload, "sign"),
                              host)
         ELSE sendServiceMessage(s, i, Get(payload, "data"),
                                 Get(payload, "sign"), host)
    [] commandMap[cmd] = "signOnly" ->
         IF payload.t = "null" THEN Raise(s)
         ELSE checkServiceStatus(s, i, Get(payload, "sign"), host)

\* The catch of sendMessage that passes no code to handleError, which then
\* uses its default.
catchErrorDefaultCode(s, i, cmd, messageId) ==
  PromiseResolve([s EXCEPT !.raised = FALSE], i, cmd,
    handleError(cmd, messageId, InvalidPayload, "error.message"), "caught")

\* The catch of sendMessage, entered with the state the raise left.
catchError(s, i, cmd, messageId) ==
  PromiseResolve([s EXCEPT !.raised = FALSE], i, cmd,
    handleError(cmd, messageId, methodNotFound, "error.message"), "caught")

\* History: the promise sendMessage returns remembers the caller's payload.
Noted(s, arg) == [s EXCEPT !.calls[Len(s.calls)].arg = arg]

\* sendMessage that wraps the payload of a command outside the table as the
\* handlers of the table do.
sendMessageWrapsUnknown(s, i, cmd, arg, host) ==
  LET payload == IF arg.t = "undefined" THEN EmptyObj ELSE arg IN
  Noted(_sendMessage(s, i, cmd, Obj("data" :> payload), defaultTimeout[i], host),
        arg)

\* sendMessage(cmd, payload) on instance i; an absent payload defaults to {}.
sendMessage(s, i, cmd, arg, host) ==
  LET payload == IF arg.t = "undefined" THEN EmptyObj ELSE arg IN
  Noted(
    IF cmd \notin DOMAIN commandMap /\ cmd \notin InheritedNames
    THEN _sendMessage(s, i, cmd, payload, defaultTimeout[i], host)
    ELSE LET l == LabelOf(s, payload) IN
         IF cmd \in InheritedNames
         THEN \* its type is not one of validTypes
              _sendMessage(l.s, i, cmd, payload, defaultTimeout[i], host)
         ELSE LET r == Invoke(l.s, i, cmd, payload, host) IN
              IF r.raised THEN catchError(r, i, cmd, l.id) ELSE r,
    arg)

\* ---------------------------------------------------------------- lifecycle
\* config.timeout || 30000
TimeoutOf(option) ==
  IF option = NoOption \/ option = 0 THEN DefaultTimeoutMs ELSE option

\* The constructor without its test of listenerFn: every instance installs
\* its own listener.
constructAlwaysInstalls(s, i) ==
  [s EXCEPT !.instanceCount = @ + 1,
            !.listenerFn = i,
            !.windowListeners = Append(@, i)]

\* The static part of the constructor, run for the new instance i.
construct(s, i) ==
  LET counted == [s EXCEPT !.instanceCount = @ + 1] IN
  IF counted.listenerFn = NoListener
  THEN [counted EXCEPT !.listenerFn = i,
                       !.windowListeners = Append(@, i)]
  ELSE counted

\* window.removeEventListener("message", fn)
removeEventListener(ls, fn) == SelectSeq(ls, LAMBDA l : l # fn)

\* The static part of destroy(): the counter and the shared listener.
releaseListener(s) ==
  LET counted == [s EXCEPT !.instanceCount = @ - 1] IN
  IF counted.instanceCount = 0 /\ counted.listenerFn # NoListener
  THEN [counted EXCEPT
          !.windowListeners = removeEventListener(@, counted.listenerFn),
          !.listenerFn = NoListener]
  ELSE counted

\* The body of destroy()'s forEach for one key, without its clearTimeout.
settleDestroyed(s, reg, key) ==
  [s EXCEPT !.calls = resolve(@, reg[key].resolve,
              handleError("", Str(key), TimeoutError, "Connection destroyed"),
              "destroy")]

\* The body of destroy()'s forEach for one key of the registry reg.
settleAndClear(s, reg, key) ==
  [settleDestroyed(s, reg, key) EXCEPT
     !.timers = IF reg[key].timeoutId # NoTimer
                THEN clearTimeout(@, reg[key].timeoutId)
                ELSE @]

\* Object.keys(reg).forEach(...) with the clearTimeout left out.
RECURSIVE forEachSettle(_, _, _)
forEachSettle(s, reg, keys) ==
  IF keys = {} THEN s
  ELSE LET key == CHOOSE k \in keys : TRUE IN
       forEachSettle(settleDestroyed(s, reg, key), reg, keys \ {key})

\* Object.keys(reg).forEach(...): the keys hold distinct promises and timers,
\* so the order of the visits does not show in the result.
RECURSIVE forEachKey(_, _, _)
forEachKey(s, reg, keys) ==
  IF keys = {} THEN s
  ELSE LET key == CHOOSE k \in keys : TRUE IN
       forEachKey(settleAndClear(s, reg, key), reg, keys \ {key})

\* destroy() that settles the pending calls and leaves their timers armed.
destroyKeepsTimers(s, i) ==
  [forEachSettle(releaseListener(s), s.cb[i], DOMAIN s.cb[i]) EXCEPT
     !.cb = [@ EXCEPT ![i] = <<>>]]

\* destroy() on instance i
destroy(s, i) ==
  [forEachKey(releaseListener(s), s.cb[i], DOMAIN s.cb[i]) EXCEPT
     !.cb = [@ EXCEPT ![i] = <<>>]]

\* ------------------------------------------------------------ environment
\* The timeout option a caller may pass to the constructor.
TimeoutOptions == {NoOption, 0, ShortTimeoutMs}

\* The (command, payload) pairs callers pass to sendMessage.
Requests ==
  { <<"getLanguage", Undefined>>,
    <<"scanQRCode", Undefined>>,
    <<"openURL", Obj("url" :> Str(HttpsPrefix \o <<"a">>))>>,
    <<"copyToClipboard", Obj("text" :> Str(<<" ">>))>>,
    <<"hostCommand", Obj("x" :> Num(1))>> }

\* The raw sizes whose encodings are measured: the small ones and the sizes
\* around the upload limit.
RawSizes ==
  (0 .. MaxRawBytes)
  \cup {maxSizeInBytes - 1, maxSizeInBytes, maxSizeInBytes + 1}

\* One run of c, or nothing when the run is empty.
Run(c, n) == IF n > 0 THEN Text(<<c>>, <<n>>) ELSE Text(<<>>, <<>>)

\* s1 + s2
Concat(s1, s2) == Text(s1.v \o s2.v, RunsOf(s1) \o RunsOf(s2))

\* The standard base64 encoding of n raw bytes (every digit is written A):
\* 4 characters for each 3 bytes, the last group padded with "=".  wrapped
\* puts a line break before the padding and one at the end.
Base64Of(n, wrapped) ==
  LET len == 4 * ((n + 2) \div 3)
      pad == (3 - (n % 3)) % 3
      break == IF wrapped THEN Run("\n", 1) ELSE Run("\n", 0)
  IN Concat(Concat(Concat(Run("A", len - pad), break), Run("=", pad)), break)

\* "data:image/png;base64,": the media type after the slash is one chunk of
\* its ten characters.
DataUriPrefix ==
  Concat(Text(DataImagePrefix, Ones(Len(DataImagePrefix))),
         Text(<<"png;base64", ",">>, <<10, 1>>))

\* The text handed to the size routine for n raw bytes.
Encoding(n, prefixed, wrapped) ==
  IF prefixed THEN Concat(DataUriPrefix, Base64Of(n, wrapped))
  ELSE Base64Of(n, wrapped)

Base64Inputs ==
  {Encoding(n, prefixed, wrapped) :
     n \in RawSizes, prefixed \in BOOLEAN, wrapped \in BOOLEAN}

\* A signature block both halves of which are non-empty strings.
ValidSign == Obj("content" :> Str(<<"c">>) @@ "signature" :> Str(<<"s">>))

\* The values callers pass as the signature block.
SignBlocks ==
  { Undefined, Null, ValidSign, Str(<<"c">>),
    Obj("content" :> Str(<<"c">>)),
    Obj("content" :> Str(<<" ">>) @@ "signature" :> Str(<<"s">>)),
    Obj("content" :> Num(1) @@ "signature" :> Str(<<"s">>)),
    Obj("content" :> Str(<<"c">>) @@ "signature" :> Str(<<>>)) }

\* { data, sign } with the sign key left out for an absent block.
Signed(data, sign) ==
  IF sign.t = "undefined" THEN Obj("data" :> data)
  ELSE Obj("data" :> data @@ "sign" :> sign)

ValidServiceKey == Obj("serviceKey" :> Str(<<"k">>))
ValidServiceMessage ==
  Obj("content" :> Obj("path" :> Str(<<"p">>)) @@ "type" :> Str(HTTP))

\* The payloads callers pass for the data half of sendServiceMessage.
ServiceMessages ==
  { ValidServiceMessage,
    Obj("content" :> Null @@ "type" :> Str(HTTP)),
    Obj("content" :> Arr(<<>>) @@ "type" :> Str(HTTP)),
    Obj("content" :> Str(<<"c">>) @@ "type" :> Str(HTTP)),
    Obj("content" :> EmptyObj @@ "type" :> Str(<<"W", "S">>)),
    Obj("type" :> Str(HTTP)) }

\* The (command, payload) pairs of the signed commands.
SignedRequests ==
  {<<"registerService", Signed(ValidServiceKey, sign)>> : sign \in SignBlocks}
  \cup {<<"sendServiceMessage", Signed(ValidServiceMessage, sign)>> :
          sign \in SignBlocks}
  \cup {<<"checkServiceStatus", Signed(EmptyObj, sign)>> : sign \in SignBlocks}
  \cup {<<"sendServiceMessage", Signed(data, ValidSign)>> :
          data \in ServiceMessages}
  \cup { <<"registerService", Signed(Obj("serviceKey" :> Str(<<" ">>)), Null)>>,
         <<"registerService", Signed(Obj("serviceKey" :> Num(1)), ValidSign)>>,
         <<"sendServiceMessage",
           Signed(Obj("type" :> Str(HTTP)), Obj("content" :> Str(<<"c">>)))>>,
         <<"sendServiceMessage",
           Signed(Obj("content" :> Null @@ "type" :> Str(HTTP)),
                  Obj("content" :> Str(<<"c">>)))>>,
         <<"registerService", Null>>,
         <<"checkServiceStatus", Null>>,
         <<"checkServiceStatus", Undefined>> }

Image(text) == Obj("image" :> text)

\* The (command, payload) pairs of the commands of type "payload".
PayloadRequests ==
  { <<"copyToClipboard", Obj("text" :> Str(<<>>))>>,
    <<"copyToClipboard", Obj("text" :> Str(<<"a">>))>>,
    <<"copyToClipboard",
      Obj("text" :> Str(<<"a">>) @@ "extra" :> Num(1)
          @@ "messageId" :> Str(<<"mine">>))>>,
    <<"openURL", Obj("url" :> Str(<<"h", "t", "t", "p", ":", "/", "/", "a">>))>>,
    <<"openURL",
      Obj("url" :> Str(HttpsPrefix \o <<"a">>) @@ "useSystemOpen" :> Bool(TRUE))>>,
    <<"openURL",
      Obj("url" :> Str(HttpsPrefix \o <<"a">>) @@ "useSystemOpen" :> Num(1))>>,
    <<"connectCocoPay", EmptyObj>>,
    <<"connectCocoPay", Obj("chainList" :> Arr(<<>>))>>,
    <<"connectCocoPay",
      Obj("chainList" :> Arr(<<>>) @@ "walletSupports" :> Null)>>,
    <<"generateSignature", EmptyObj>>,
    <<"generateSignature", Obj("message" :> Str(<<"m">>))>>,
    <<"verifySignature", Obj("message" :> Str(<<"m">>))>>,
    <<"verifySignature",
      Obj("message" :> Str(<<"m">>) @@ "signature" :> Str(<<"s">>))>>,
    <<"encrypt", Null>>,
    <<"encrypt", Obj("message" :> Str(<<"m">>))>>,
    <<"decrypt", Obj("content" :> Num(1))>>,
    <<"decrypt", Obj("content" :> Str(<<"c">>))>>,
    <<"getAccount", Undefined>>,
    <<"getAccount", Obj("type" :> Str(<<"1">>))>>,
    <<"getAccount", Obj("type" :> Str(<<"2">>))>>,
    <<"getAccount", Str(<<"a">>)>>,
    <<"setExtendedData", EmptyObj>>,
    <<"setExtendedData", Obj("extend" :> Null)>>,
    <<"setExtendedData", Obj("extend" :> Str(<<"e">>))>>,
    <<"setExtendedData", Str(<<"e">>)>>,
    <<"saveImage", Image(Num(1))>>,
    <<"saveImage", Image(Encoding(3, FALSE, FALSE))>> }
  \cup {<<"saveImage", Image(Encoding(n, TRUE, FALSE))>> :
          n \in {0, 3, maxSizeInBytes - 1, maxSizeInBytes, maxSizeInBytes + 1}}

\* The pairs whose command is not validated: commands without input and
\* commands outside the table, one of them a name every object inherits.
OtherRequests ==
  { <<"getLanguage", Undefined>>,
    <<"getLanguage", Obj("x" :> Num(1))>>,
    <<"hostCommand", Undefined>>,
    <<"hostCommand", Obj("x" :> Num(1))>>,
    <<"hostCommand",
      Obj("x" :> Num(1) @@ "cmd" :> Str(<<"other">>)
          @@ "messageId" :> Str(<<"mine">>))>>,
    <<"constructor", Obj("x" :> Num(1))>> }

\* The (command, payload) pairs of the runs that vary the input.
CallRequests == SignedRequests \cup PayloadRequests \cup OtherRequests

\* The hosts of those runs.
CallHosts == {"reachable", "absent"}

Reply(n) == ReplyTo(Token(n))

\* The data of the message events the window receives: replies to the
\* messages posted to the host so far and to one never posted, and data that
\* is no reply.
Messages ==
  {ReplyTo(Get(posted[n], "messageId").v) : n \in DOMAIN posted}
  \cup {Reply(0), Null, Str(<<"ping">>), EmptyObj, Obj("messageId" :> Num(1)),
        Obj("messageId" :> Str(<<"constructor">>))}

\* ------------------------------------------------------------------ actions
Init ==
  /\ instances = 0
  /\ destroyCalls = <<>>
  /\ defaultTimeout = <<>>
  /\ instanceCount = 0
  /\ listenerFn = NoListener
  /\ windowListeners = <<>>
  /\ messageCallbacks = <<>>
  /\ timers = {}
  /\ nextTimerId = 1
  /\ nextMessageId = 1
  /\ calls = <<>>
  /\ posted = <<>>
  /\ imageSize = NotMeasured

\* new RelayXClient(config)
ConstructWith(option) ==
  /\ Ops < MaxOps
  /\ instances' = instances + 1
  /\ destroyCalls' = Append(destroyCalls, 0)
  /\ defaultTimeout' = Append(defaultTimeout, TimeoutOf(option))
  /\ Becomes(construct([State EXCEPT !.cb = Append(@, <<>>)], instances + 1))

Construct == \E option \in TimeoutOptions : ConstructWith(option)

\* client.destroy() on instance i
DestroyOn(i) ==
  /\ Ops < MaxOps
  /\ destroyCalls' = [destroyCalls EXCEPT ![i] = @ + 1]
  /\ Becomes(destroy(State, i))
  /\ UNCHANGED <<instances, defaultTimeout>>

Destroy == \E i \in Inst : DestroyOn(i)

\* client.sendMessage(cmd, payload) on instance i
SendOn(i, req, host) ==
  /\ Ops < MaxOps
  /\ Becomes(sendMessage(State, i, req[1], req[2], host))
  /\ UNCHANGED <<instances, destroyCalls, defaultTimeout>>

SendMessage ==
  \E i \in Inst, req \in Requests, host \in HostBehaviours : SendOn(i, req, host)

\* The state after the window's listeners have run for this data.
AfterDelivery(data) == deliver(State, data)

\* A message event with this data arrives at the window.
DeliverData(data) ==
  /\ Becomes(AfterDelivery(data))
  /\ UNCHANGED <<instances, destroyCalls, defaultTimeout>>

Deliver == \E data \in Messages : DeliverData(data)

\* The armed timer t expires and runs its callback.
TimerFireOn(t) ==
  /\ Becomes(handleTimeout([State EXCEPT !.timers = @ \ {t}],
                           t.inst, t.messageId, t.cmd))
  /\ UNCHANGED <<instances, destroyCalls, defaultTimeout>>

TimerFire == \E t \in timers : TimerFireOn(t)

Next == Construct \/ Destroy \/ SendMessage \/ Deliver \/ TimerFire

Spec == Init /\ [][Next]_vars

\* Timers the browser has armed do fire.
FairSpec == Spec /\ WF_vars(TimerFire)

\* ------------------------------------------------- runs that vary the input
\* The state after new RelayXClient().
CallInit ==
  /\ instances = 1
  /\ destroyCalls = <<0>>
  /\ defaultTimeout = <<DefaultTimeoutMs>>
  /\ instanceCount = 1
  /\ listenerFn = 1
  /\ windowListeners = <<1>>
  /\ messageCallbacks = << <<>> >>
  /\ timers = {}
  /\ nextTimerId = 1
  /\ nextMessageId = 1
  /\ calls = <<>>
  /\ posted = <<>>
  /\ imageSize = NotMeasured

\* client.sendMessage(cmd, payload) on the one client
CallOn(req, host) ==
  /\ Ops < MaxCallOps
  /\ Becomes(sendMessage(State, 1, req[1], req[2], host))
  /\ UNCHANGED <<instances, destroyCalls, defaultTimeout>>

Call == \E req \in CallRequests, host \in CallHosts : CallOn(req, host)

CallSpec == CallInit /\ [][Call]_vars

\* client.getBase64ImageSize(input), the private routine called by itself
Measure(input) ==
  /\ imageSize' = [base64String |-> input,
                   bytes |-> getBase64ImageSize(input)]
  /\ UNCHANGED <<instances, destroyCalls, defaultTimeout, instanceCount,
                 listenerFn, windowListeners, messageCallbacks, timers,
                 nextTimerId, nextMessageId, calls, posted>>

MeasureAny == \E input \in Base64Inputs : Measure(input)

SizeSpec == CallInit /\ [][MeasureAny]_vars

\* ------------------------------------- runs that exercise the conventions
\* sendMessage inputs for table commands of each type: accepted and
\* rejected ones, and one that makes the handler raise.
ConventionRequests ==
  { <<"getLanguage", Undefined>>,
    <<"copyToClipboard", Obj("text" :> Str(<<"a">>))>>,
    <<"copyToClipboard",
      Obj("text" :> Str(<<>>) @@ "messageId" :> Str(<<"mine">>))>>,
    <<"getAccount", Undefined>>,
    <<"getAccount", Str(<<"a">>)>>,
    <<"checkServiceStatus", Signed(EmptyObj, ValidSign)>>,
    <<"checkServiceStatus", EmptyObj>>,
    <<"registerService", Signed(ValidServiceKey, ValidSign)>>,
    <<"registerService", Signed(ValidServiceKey, Null)>> }

ConventionSend ==
  \E i \in Inst, req \in ConventionRequests, host \in CallHosts :
    SendOn(i, req, host)

ConventionNext == Construct \/ ConventionSend \/ Deliver \/ TimerFire

ConventionSpec == Init /\ [][ConventionNext]_vars

\* ------------------------------------ runs with a host that answers in place
\* The calls made to such a host: with and without a timer, in and outside
\* the table.
EchoRequests ==
  { <<"getLanguage", Undefined>>,
    <<"openURL", Obj("url" :> Str(HttpsPrefix \o <<"a">>))>>,
    <<"hostCommand", Obj("x" :> Num(1))>> }

EchoCall ==
  \E req \in EchoRequests, host \in {"reachable", EchoingHost} :
    CallOn(req, host)

EchoNext == EchoCall \/ Deliver \/ TimerFire

EchoSpec == CallInit /\ [][EchoNext]_vars

\* ------------------------------- runs that vary the labels and the url
Mine == Str(<<"mine">>)

\* Inputs with and without a messageId of the caller's, at the top of the
\* payload and in the part the handler validates.
LabelRequests ==
  { <<"copyToClipboard", Obj("text" :> Str(<<>>) @@ "messageId" :> Mine)>>,
    <<"copyToClipboard", Obj("text" :> Str(<<>>))>>,
    <<"copyToClipboard", Obj("text" :> Str(<<"a">>) @@ "messageId" :> Mine)>>,
    <<"registerService",
      Signed(Obj("serviceKey" :> Str(<<"k">>) @@ "messageId" :> Mine), Null)>>,
    <<"registerService",
      Obj("data" :> ValidServiceKey @@ "sign" :> Null
          @@ "messageId" :> Str(<<"outer">>))>>,
    <<"checkServiceStatus",
      Signed(EmptyObj, Obj("content" :> Str(<<"c">>) @@ "messageId" :> Mine))>>,
    <<"checkServiceStatus",
      Signed(EmptyObj,
             Obj("content" :> Str(<<"c">>) @@ "signature" :> Str(<<"s">>)
                 @@ "messageId" :> Mine))>>,
    <<"hostCommand", Obj("x" :> Num(1) @@ "messageId" :> Mine)>> }

\* "https://" followed by n times the letter a.
Url(n) == Text(HttpsPrefix \o <<"a">>, Ones(Len(HttpsPrefix)) \o <<n>>)

\* The urls callers pass: around the length limit, of another scheme, blank
\* after the scheme, with leading white space, and values that are no string.
Urls ==
  { Url(1), Url(MaxUrlLength - Len(HttpsPrefix) - 1),
    Url(MaxUrlLength - Len(HttpsPrefix)),
    Url(MaxUrlLength - Len(HttpsPrefix) + 1),
    Str(HttpsPrefix), Str(HttpsPrefix \o <<" ">>),
    Str(<<"h", "t", "t", "p", ":", "/", "/", "a">>),
    Str(<<" ">> \o HttpsPrefix \o <<"a">>),
    Str(<<>>), Str(<<" ">>), Num(1), Null }

\* The payloads of openURL.
UrlRequests ==
  {<<"openURL", Obj("url" :> url)>> : url \in Urls}
  \cup {<<"openURL", Obj("url" :> Url(1) @@ "useSystemOpen" :> flag)>> :
          flag \in {Bool(TRUE), Bool(FALSE), Num(1), Null, Str(<<"true">>)}}
  \cup { <<"openURL", Undefined>>, <<"openURL", Null>>, <<"openURL", Url(1)>>,
         <<"openURL", EmptyObj>> }

\* The commands without input, called with payloads of every kind.
NoInputRequests ==
  {<<cmd, payload>> :
     cmd \in {"getSafeAreaInsets", "getLanguage", "scanQRCode",
              "getExtendedData"},
     payload \in {Null, Str(<<"a">>), Obj("x" :> Num(1)),
                  Obj("data" :> Obj("x" :> Num(1)) @@ "cmd" :> Str(<<"other">>)
                      @@ "messageId" :> Mine)}}
  \cup {<<"getLanguage", Undefined>>}

InputCall ==
  \E req \in LabelRequests \cup UrlRequests \cup NoInputRequests,
     host \in CallHosts :
    CallOn(req, host)

InputSpec == CallInit /\ [][InputCall]_vars

\* ------------------------------------- runs that begin after a full teardown
\* The state after a = new RelayXClient(); a.destroy(): every instance has
\* been destroyed and the listener is uninstalled.
TeardownInit ==
  /\ instances = 1
  /\ destroyCalls = <<1>>
  /\ defaultTimeout = <<DefaultTimeoutMs>>
  /\ instanceCount = 0
  /\ listenerFn = NoListener
  /\ windowListeners = <<>>
  /\ messageCallbacks = << <<>> >>
  /\ timers = {}
  /\ nextTimerId = 1
  /\ nextMessageId = 1
  /\ calls = <<>>
  /\ posted = <<>>
  /\ imageSize = NotMeasured

\* client.sendMessage(cmd, payload) on an instance constructed after the
\* teardown, with the host reachable.
TeardownSend ==
  \E i \in Inst \ {1}, req \in EchoRequests :
    /\ Len(calls) < MaxTeardownCalls
    /\ Becomes(sendMessage(State, i, req[1], req[2], "reachable"))
    /\ UNCHANGED <<instances, destroyCalls, defaultTimeout>>

TeardownNext == Construct \/ Destroy \/ TeardownSend \/ Deliver \/ TimerFire

TeardownSpec == TeardownInit /\ [][TeardownNext]_vars

\* ------------------------------------------------------------------ claims
\* The registry entries of all instances, as <<instance, key>>.
Entries == UNION {{<<i, key>> : key \in DOMAIN messageCallbacks[i]} : i \in Inst}

\* The instances destroy() was never called on.
LiveInst == {i \in Inst : destroyCalls[i] = 0}

\* The error response a timeout or a teardown gives the call with this key.
TimeoutResponse(key) ==
  Obj("code" :> Num(TimeoutError) @@ "messageId" :> Str(key))

\* C1: under every interleaving of replies, timer expiries and destroy, the
\* continuations of a call are invoked at most once; a settled call was
\* settled by exactly one path, and it has neither a registry entry nor an
\* armed timer left through which another path could settle it again.
C1_SettledAtMostOnce ==
  \A k \in DOMAIN calls :
    /\ calls[k].resolves + calls[k].rejects <= 1
    /\ calls[k].state # "pending" =>
         /\ calls[k].resolves + calls[k].rejects = 1
         /\ \A e \in Entries : messageCallbacks[e[1]][e[2]].resolve # k
         /\ \A t \in timers :
              ~(t.inst = calls[k].inst /\ t.messageId = calls[k].key)

\* One instance had a call settled by a reply, another by its timer, and was
\* destroyed.
C1_Witness ==
  \E k1, k2 \in DOMAIN calls :
    /\ calls[k1].inst = calls[k2].inst
    /\ calls[k1].by = "reply" /\ calls[k1].resolves = 1
    /\ calls[k2].by = "timeout" /\ calls[k2].resolves = 1
    /\ destroyCalls[calls[k1].inst] >= 1

\* C2: a reply whose messageId matches a pending call, dispatched before the
\* call's timer fires, resolves the call with the received structure, removes
\* its registry entry and cancels its timer.
C2_ReplySettles ==
  \A k \in DOMAIN calls :
    calls[k].replied =>
      /\ calls[k].state = "resolved"
      /\ calls[k].by = "reply"
      /\ calls[k].value = ReplyTo(calls[k].key)
      /\ calls[k].key \notin DOMAIN messageCallbacks[calls[k].inst]
      /\ \A t \in timers : t.messageId # calls[k].key

\* C3: with several instances live (none ever destroyed), a reply to a
\* pending call settles it, whichever instance made the call.
C3_ReplyReachesOwner ==
  (instances >= 2 /\ LiveInst = Inst) =>
    \A k \in DOMAIN calls : calls[k].replied => calls[k].by = "reply"

\* Every entry of a command that expects a reply has an armed timer of its
\* instance's timeout.
TimedEntriesArmed ==
  \A e \in Entries :
    LET entry == messageCallbacks[e[1]][e[2]] IN
    calls[entry.resolve].cmd \notin NoTimeoutCommands =>
      \E t \in timers :
        /\ t.id = entry.timeoutId /\ t.inst = e[1] /\ t.messageId = e[2]
        /\ t.delay = defaultTimeout[e[1]]

\* What the expiry of timer t does to the call it was armed for.
TimeoutOutcome(t) ==
  /\ t.messageId \in DOMAIN messageCallbacks[t.inst]
  /\ LET k == messageCallbacks[t.inst][t.messageId].resolve IN
       /\ calls'[k].state = "resolved"
       /\ calls'[k].by = "timeout"
       /\ calls'[k].value = TimeoutResponse(t.messageId)
  /\ t.messageId \notin DOMAIN messageCallbacks'[t.inst]

DistinctTokens ==
  /\ \A k1, k2 \in DOMAIN calls :
       (k1 # k2 /\ calls[k1].key # <<>>) => calls[k1].key # calls[k2].key
  /\ \A e1, e2 \in Entries :
       e1 # e2 => /\ e1[2] # e2[2]
                  /\ messageCallbacks[e1[1]][e1[2]].resolve
                       # messageCallbacks[e2[1]][e2[2]].resolve
  /\ \A e \in Entries : calls[messageCallbacks[e[1]][e[2]].resolve].key = e[2]

\* The arrival of this message settles or removes nothing but the call
\* registered under the token it carries.
OnlyItsCall(data) ==
  LET after == AfterDelivery(data) IN
  /\ \A k \in DOMAIN calls :
       Get(data, "messageId") # Str(calls[k].key) => after.calls[k] = calls[k]
  /\ \A e \in Entries :
       Get(data, "messageId") # Str(e[2]) =>
         /\ e[2] \in DOMAIN after.cb[e[1]]
         /\ after.cb[e[1]][e[2]] = messageCallbacks[e[1]][e[2]]
         /\ \A t \in timers : t.messageId = e[2] => t \in after.timers

\* C5: calls in flight at the same time have distinct tokens, and in every
\* state (so in whatever order replies arrive) a message tagged with one
\* token never settles or removes a call awaiting another.
C5_RepliesSettleOnlyTheirCall ==
  DistinctTokens /\ \A data \in Messages : OnlyItsCall(data)

\* Two calls were in flight on one instance; the later one got its reply, the
\* earlier one is still registered.
C5_Witness ==
  \E k1, k2 \in DOMAIN calls :
    /\ k1 < k2 /\ calls[k1].inst = calls[k2].inst
    /\ calls[k2].by = "reply"
    /\ calls[k1].state = "pending"
    /\ calls[k1].key \in DOMAIN messageCallbacks[calls[k1].inst]

\* C6: under fair timer firing every call issued is eventually resolved,
\* also when no reply arrives and destroy is never called; stated by what it
\* requires first, of a call made on a live instance: that it does not stay
\* pending for ever.
C6_EveryCallSettles ==
  \A k \in 1 .. MaxOps :
    []((k \in DOMAIN calls /\ calls[k].inst \in LiveInst) =>
         <>(k \in DOMAIN calls /\ calls[k].state # "pending"))

\* What destroy() on instance i does to the calls pending in its registry.
DestroyOutcome(i) ==
  /\ \A key \in DOMAIN messageCallbacks[i] :
       LET k == messageCallbacks[i][key].resolve IN
       /\ calls'[k].state = "resolved"
       /\ calls'[k].by = "destroy"
       /\ calls'[k].resolves = 1
       /\ calls'[k].value = TimeoutResponse(key)
  /\ \A t \in timers : t.inst = i => t \notin timers'
  /\ \A t \in timers' : t.inst # i
  /\ messageCallbacks'[i] = <<>>

\* C7: destroy() resolves every call pending in the instance's registry with
\* a TimeoutError response, cancels their timers and empties the registry.
C7_DestroySettlesAll ==
  [][\A i \in Inst : DestroyOn(i) => DestroyOutcome(i)]_vars

\* destroy() settled two calls of one instance, one of them with a timer.
C7_Witness ==
  \E k1, k2 \in DOMAIN calls :
    /\ k1 # k2 /\ calls[k1].inst = calls[k2].inst
    /\ calls[k1].by = "destroy" /\ calls[k2].by = "destroy"
    /\ calls[k1].cmd \notin NoTimeoutCommands
    /\ timers = {}

\* C8: once an instance has been destroyed, its registry holds no pending
\* call and it has no armed timer, whatever is done afterwards.
C8_DestroyedHoldsNothing ==
  \A i \in Inst :
    destroyCalls[i] > 0 =>
      /\ messageCallbacks[i] = <<>>
      /\ \A t \in timers : t.inst # i

\* C9: the shared listener is installed on the window if and only if at
\* least one instance is live.
C9_ListenerIffLive == (windowListeners # <<>>) <=> (LiveInst # {})

\* C10: no call ends rejected or in an exception: every settled promise is
\* resolved with a response object.
C10_NeverRejected ==
  \A k \in DOMAIN calls :
    /\ calls[k].state # "rejected"
    /\ calls[k].rejects = 0
    /\ calls[k].state = "resolved" => IsObject(calls[k].value)

\* The numeric code of a response, 0 for a value without one.
CodeOf(v) ==
  IF IsObject(v) /\ Has(v, "code") /\ Get(v, "code").t = "number"
  THEN Get(v, "code").v
  ELSE 0

\* Call k handed a message to window.parent.postMessage.
Dispatched(k) == calls[k].key # <<>> /\ calls[k].by \notin {"nohost", "throw"}

\* Every posted message, registry entry and armed timer belongs to a call
\* that was dispatched: a call that was not has left none of them.
Quiet ==
  /\ Len(posted) = Cardinality({k \in DOMAIN calls : Dispatched(k)})
  /\ \A e \in Entries :
       \E k \in DOMAIN calls : Dispatched(k) /\ calls[k].key = e[2]
  /\ \A t \in timers :
       \E k \in DOMAIN calls : Dispatched(k) /\ calls[k].key = t.messageId

\* Call k resolved at once with an error response of this code and was not
\* dispatched.
ResolvedLocally(k, code, by) ==
  /\ calls[k].state = "resolved"
  /\ calls[k].by = by
  /\ CodeOf(calls[k].value) = code
  /\ IsString(Get(calls[k].value, "messageId"))
  /\ ~Dispatched(k)

\* The inputs for which invoking the handler raises a TypeError: a null
\* payload whose data or sign is read, and a truthy primitive given to the in
\* operator of getAccount and setExtendedData.
InputRaises(cmd, arg) ==
  \/ /\ cmd \in {"registerService", "sendServiceMessage", "checkServiceStatus"}
     /\ arg.t = "null"
  \/ /\ cmd \in {"getAccount", "setExtendedData"}
     /\ Truthy(arg) /\ IsPrimitive(arg)

\* C11: when invoking the handler of a table command raises synchronously,
\* sendMessage returns a response with code methodNotFound (30004); nothing
\* is posted and no pending call or timer is registered.  The raise is caught
\* for exactly the inputs that make the handler raise.
C11_RaiseBecomesMethodNotFound ==
  /\ Quiet
  /\ \A k \in DOMAIN calls :
       /\ InputRaises(calls[k].cmd, calls[k].arg)
            => ResolvedLocally(k, methodNotFound, "caught")
       /\ calls[k].by = "caught" => InputRaises(calls[k].cmd, calls[k].arg)

\* sendMessage('registerService', null) made while an earlier call is pending.
C11_Witness ==
  \E k \in DOMAIN calls :
    /\ calls[k].cmd = "registerService" /\ calls[k].arg.t = "null"
    /\ calls[k].by = "caught"
    /\ Entries # {}

\* ---- the documented shape rules (the command table of the design)
\* A non-empty trimmed string.
DocText(v) == IsString(v) /\ Trim(v.v) # <<>>

\* A field that is present: the key is there and its value is not undefined.
Present(v, key) == Has(v, key) /\ Get(v, key).t # "undefined"

\* Every raw size paired with each of its encodings.
EncodingTable ==
  {<<n, Encoding(n, prefixed, wrapped)>> :
     n \in RawSizes, prefixed \in BOOLEAN, wrapped \in BOOLEAN}

\* The raw sizes a text is the encoding of.
EncodedSizes(text) == {e[1] : e \in {x \in EncodingTable : x[2] = text}}

\* The signature block contract: 0 for a block with both halves non-empty
\* after trimming, else the kind of the rejection.
DocSignKind(sign) ==
  IF sign.t \in {"undefined", "null"} THEN MissingCertificate
  ELSE IF DocText(Get(sign, "content")) /\ DocText(Get(sign, "signature"))
  THEN 0
  ELSE InvalidCertificate

\* Whether the payload breaks the shape rule of its "payload" command.
DocPayloadViolation(cmd, p) ==
  CASE cmd = "connectCocoPay" ->
         \/ ~IsArray(Get(p, "chainList"))
         \/ (Present(p, "walletSupports") /\ ~IsArray(Get(p, "walletSupports")))
    [] cmd = "openURL" ->
         \/ ~DocText(Get(p, "url"))
         \/ ~StartsWith(Get(p, "url").v, HttpsPrefix)
         \/ Length(Get(p, "url")) > MaxUrlLength
         \/ (Present(p, "useSystemOpen")
             /\ Get(p, "useSystemOpen").t # "boolean")
    [] cmd = "copyToClipboard" -> ~DocText(Get(p, "text"))
    [] cmd = "saveImage" ->
         \/ ~DocText(Get(p, "image"))
         \/ ~StartsWith(Get(p, "image").v, DataImagePrefix)
    [] cmd = "getAccount" ->
         Present(p, "type") /\ Get(p, "type") # Str(<<"1">>)
    [] cmd = "setExtendedData" ->
         \/ ~Present(p, "extend")
         \/ Get(p, "extend").t \notin {"object", "string"}
    [] cmd \in {"generateSignature", "encrypt"} -> ~DocText(Get(p, "message"))
    [] cmd = "verifySignature" ->
         ~DocText(Get(p, "message")) \/ ~DocText(Get(p, "signature"))
    [] cmd = "decrypt" -> ~DocText(Get(p, "content"))
    [] cmd = "registerService" -> ~DocText(Get(p, "serviceKey"))
    [] cmd = "sendServiceMessage" ->
         \/ Get(p, "content").t # "object"
         \/ Get(p, "type") # Str(HTTP)
    [] OTHER -> FALSE

\* The documented error kind for the input of a command with a validator,
\* 0 for an input that breaks no rule.  A null input of a signed command is
\* left to C11, whose case it is.
DocumentedKind(cmd, arg) ==
  CASE cmd \in {"registerService", "sendServiceMessage"} ->
         IF arg.t = "null" THEN 0
         ELSE IF DocPayloadViolation(cmd, Get(arg, "data")) THEN InvalidPayload
         ELSE DocSignKind(Get(arg, "sign"))
    [] cmd = "checkServiceStatus" ->
         IF arg.t = "null" THEN 0 ELSE DocSignKind(Get(arg, "sign"))
    [] cmd = "saveImage" ->
         IF DocPayloadViolation(cmd, arg) THEN InvalidPayload
         ELSE IF \E n \in EncodedSizes(Get(arg, "image")) : n > maxSizeInBytes
         THEN ExceededUploadSizeLimit
         ELSE 0
    [] cmd \in DOMAIN commandMap /\ commandMap[cmd] = "payload" ->
         IF DocPayloadViolation(cmd, arg) THEN InvalidPayload ELSE 0
    [] OTHER -> 0

\* C12: for every command with a validator, an input that violates a
\* documented shape rule resolves at once with an error response of the
\* documented kind, and nothing else happens: no message is posted, no
\* registry entry is created, no timer is armed.
C12_ViolationsRejected ==
  /\ Quiet
  /\ \A k \in DOMAIN calls :
       DocumentedKind(calls[k].cmd, calls[k].arg) # 0
         => ResolvedLocally(k, DocumentedKind(calls[k].cmd, calls[k].arg),
                            "local")

\* Every call that was dispatched is still pending, with its entry in the
\* registry and, unless its command has none, its timer armed: nothing has
\* been removed.  (It holds where no reply, timer or destroy acts.)
Kept ==
  \A k \in DOMAIN calls :
    Dispatched(k) =>
      /\ calls[k].state = "pending"
      /\ <<calls[k].inst, calls[k].key>> \in Entries
      /\ (calls[k].cmd \notin NoTimeoutCommands
            => \E t \in timers : t.messageId = calls[k].key)

\* C13: with no parent window a dispatched call resolves at once with an
\* error response of code InvalidPayload (30001) carrying the call's token;
\* nothing is posted and the registry and the armed timers are as before the
\* call: they hold exactly the calls dispatched to a reachable host.
C13_NoHostResolvesAtOnce ==
  /\ Quiet
  /\ Kept
  /\ \A k \in DOMAIN calls :
       calls[k].key # <<>> /\ ~Dispatched(k)
         => /\ ResolvedLocally(k, InvalidPayload, "nohost")
            /\ Get(calls[k].value, "messageId") = Str(calls[k].key)

\* openURL({url: "https://a"}) with no host, made while a call is pending.
C13_Witness ==
  \E j, k \in DOMAIN calls :
    /\ j < k
    /\ Dispatched(j)
    /\ calls[k].cmd = "openURL" /\ calls[k].by = "nohost"

\* C14: error responses carry the message that tells their cause: the
\* response of a call made with no host has a message, and the response of a
\* call settled by destroy has a message and differs from the response the
\* expiry of the call's timer would have given.
C14_ResponsesCarryMessage ==
  \A k \in DOMAIN calls :
    /\ calls[k].by = "nohost" => Has(calls[k].value, "message")
    /\ calls[k].by = "destroy"
         => /\ Has(calls[k].value, "message")
            /\ calls[k].value # TimeoutResponse(calls[k].key)

\* C15: whatever the payload contains, every message posted to the host has
\* the command name passed to the call as its cmd and, as its messageId, the
\* fresh token under which the pending call was registered.
C15_ReservedFieldsKept ==
  \A n \in DOMAIN posted :
    \E k \in DOMAIN calls :
      /\ Dispatched(k)
      /\ Get(posted[n], "cmd") = Str(<<calls[k].cmd>>)
      /\ Get(posted[n], "messageId") = Str(calls[k].key)

\* The message a dispatched call posted: calls post in the order they are made.
PostedOf(k) == posted[Cardinality({j \in 1 .. k : Dispatched(j)})]

\* The fields of the caller's payload (none for an absent payload).
FieldsOf(arg) == IF IsObject(arg) THEN arg.f ELSE <<>>

\* Call k is registered under its token with a timer of its instance's
\* default timeout.
RegisteredWithTimer(k) ==
  /\ <<calls[k].inst, calls[k].key>> \in Entries
  /\ \E t \in timers :
       /\ t.messageId = calls[k].key
       /\ t.inst = calls[k].inst
       /\ t.cmd = calls[k].cmd
       /\ t.delay = defaultTimeout[calls[k].inst]
       /\ messageCallbacks[calls[k].inst][calls[k].key].timeoutId = t.id

\* C16: a command that is not in the command table is not validated: the
\* call always reaches the transport, and with a reachable host the message
\* posted has the caller's payload fields unchanged (next to cmd and
\* messageId), a pending call is registered and a timeout is armed.
C16_UnknownCommandPassesThrough ==
  \A k \in DOMAIN calls :
    calls[k].cmd \notin DOMAIN commandMap
      => /\ calls[k].key # <<>>
         /\ calls[k].by \in {"none", "nohost"}
         /\ Dispatched(k)
              => /\ DOMAIN PostedOf(k).f
                      = DOMAIN FieldsOf(calls[k].arg) \cup {"cmd", "messageId"}
                 /\ \A field \in DOMAIN FieldsOf(calls[k].arg) :
                      PostedOf(k).f[field] = calls[k].arg.f[field]
                 /\ RegisteredWithTimer(k)

\* Two commands outside the table, one a name every object inherits, were
\* dispatched with a payload.
C16_Witness ==
  \E j, k \in DOMAIN calls :
    /\ calls[j].cmd = "hostCommand" /\ calls[k].cmd = "constructor"
    /\ Dispatched(j) /\ Dispatched(k)
    /\ DOMAIN FieldsOf(calls[j].arg) # {}

\* The fields the command table declares for the payload of a command.
Declared(cmd) ==
  CASE cmd = "connectCocoPay" -> {"chainList", "walletSupports"}
    [] cmd = "openURL" -> {"url", "useSystemOpen"}
    [] cmd = "copyToClipboard" -> {"text"}
    [] cmd = "saveImage" -> {"image"}
    [] cmd = "getAccount" -> {"type"}
    [] cmd = "setExtendedData" -> {"extend"}
    [] cmd \in {"generateSignature", "encrypt"} -> {"message"}
    [] cmd = "verifySignature" -> {"message", "signature"}
    [] cmd = "decrypt" -> {"content"}
    [] cmd = "registerService" -> {"serviceKey"}
    [] cmd = "sendServiceMessage" -> {"content", "type"}
    [] OTHER -> {}

\* C17: for every input a validator accepts, the payload forwarded to the
\* transport holds only fields declared for the command: no other key of the
\* caller's input (a caller-supplied messageId among them) is in the message
\* posted.
C17_OnlyDeclaredFieldsForwarded ==
  \A k \in DOMAIN calls :
    (calls[k].cmd \in DOMAIN commandMap /\ Dispatched(k))
      => /\ DOMAIN PostedOf(k).f \subseteq {"cmd", "messageId", "data", "sign"}
         /\ DOMAIN FieldsOf(Get(PostedOf(k), "data")) \subseteq Declared(calls[k].cmd)

SignedCommands == {"registerService", "sendServiceMessage", "checkServiceStatus"}

\* C18: for registerService, sendServiceMessage and checkServiceStatus an
\* absent signature block is rejected with MissingCertificate (30002) and a
\* present block whose content or signature is not a non-empty trimmed string
\* with InvalidCertificate (30003); for the two commands with a payload the
\* block is examined only after the payload rule passes, so a payload that
\* breaks its rule is rejected with InvalidPayload (30001) whatever the block.
C18_SignatureRules ==
  \A k \in DOMAIN calls :
    (calls[k].cmd \in SignedCommands /\ calls[k].arg.t # "null")
      => LET data == Get(calls[k].arg, "data")
             sign == Get(calls[k].arg, "sign")
             payloadBroken == /\ calls[k].cmd # "checkServiceStatus"
                              /\ DocPayloadViolation(calls[k].cmd, data)
         IN /\ payloadBroken => ResolvedLocally(k, InvalidPayload, "local")
            /\ (~payloadBroken /\ sign.t \in {"undefined", "null"})
                 => ResolvedLocally(k, MissingCertificate, "local")
            /\ (~payloadBroken /\ sign.t \notin {"undefined", "null"}
                /\ ~(DocText(Get(sign, "content"))
                     /\ DocText(Get(sign, "signature"))))
                 => ResolvedLocally(k, InvalidCertificate, "local")

\* C19: saveImage with a well-formed data:image/ payload reaches the
\* transport (and is posted unchanged to a reachable host) when the image
\* encodes at most 1 MiB (1048576 bytes, the limit included), and is rejected
\* with ExceededUploadSizeLimit (30010), which is not InvalidPayload, when it
\* encodes 1 MiB + 1 byte or more.
C19_UploadLimit ==
  /\ ExceededUploadSizeLimit # InvalidPayload
  /\ \A k \in DOMAIN calls :
       (calls[k].cmd = "saveImage" /\ ~DocPayloadViolation("saveImage", calls[k].arg))
         => \A n \in EncodedSizes(Get(calls[k].arg, "image")) :
              /\ n <= maxSizeInBytes
                   => /\ calls[k].key # <<>>
                      /\ Dispatched(k)
                           => Get(PostedOf(k), "data") = calls[k].arg
              /\ n >= maxSizeInBytes + 1
                   => ResolvedLocally(k, ExceededUploadSizeLimit, "local")

\* An image of exactly 1 MiB was posted and one of 1 MiB + 1 byte rejected.
C19_Witness ==
  \E j, k \in DOMAIN calls :
    /\ calls[j].arg = Image(Encoding(maxSizeInBytes, TRUE, FALSE))
    /\ Dispatched(j)
    /\ calls[k].arg = Image(Encoding(maxSizeInBytes + 1, TRUE, FALSE))
    /\ CodeOf(calls[k].value) = ExceededUploadSizeLimit

\* C20: the size routine returns n for every base64 encoding of n raw bytes,
\* with or without a data-URI prefix and with embedded line breaks.
C20_SizeIsDecodedLength ==
  \A n \in RawSizes, prefixed \in BOOLEAN, wrapped \in BOOLEAN :
    imageSize.base64String = Encoding(n, prefixed, wrapped)
      => imageSize.bytes = n

\* The timeout the design gives a client constructed with this option.
ConfiguredTimeout(option) ==
  IF option = NoOption THEN DefaultTimeoutMs ELSE option

\* C21: a client constructed with the timeout option T arms the timer of
\* every call that expects a reply at T milliseconds, for every T supplied,
\* and a client constructed without the option arms it at 30000 ms.
C21_TimeoutOptionHonoured ==
  [][/\ TimedEntriesArmed'
     /\ \A option \in TimeoutOptions :
          ConstructWith(option) =>
            defaultTimeout'[instances + 1] = ConfiguredTimeout(option)]_vars

\* The typed entry point of a table command, called directly with the
\* arguments of the command's calling convention taken from the payload.
TypedEntry(s, i, cmd, payload, host) ==
  CASE commandMap[cmd] = "callbackOnly" -> CallbackOnlyHandler(s, i, cmd, host)
    [] commandMap[cmd] = "payload" ->
         TypedPayloadHandler(s, i, cmd, payload, host)
    [] commandMap[cmd] = "signOnly" ->
         checkServiceStatus(s, i, Get(payload, "sign"), host)
    [] cmd = "registerService" ->
         registerService(s, i, Get(payload, "data"), Get(payload, "sign"), host)
    [] OTHER ->
         sendServiceMessage(s, i, Get(payload, "data"), Get(payload, "sign"),
                            host)

\* A response or message with a token minted during the call written as
\* "fresh": which UUID a call mints is not part of its outcome.
Masked(v, from) ==
  IF /\ IsObject(v) /\ Has(v, "messageId") /\ IsString(Get(v, "messageId"))
     /\ \E n \in from .. from + 2 : Get(v, "messageId").v = Token(n)
  THEN Obj([v.f EXCEPT !["messageId"] = Str(<<"fresh">>)])
  ELSE v

\* The timers of a armed since the state s, without their handles.
NewTimers(s, a) ==
  {[inst |-> t.inst, cmd |-> t.cmd, delay |-> t.delay] :
     t \in a.timers \ s.timers}

\* The two results a and b of a call made in state s are the same outcome:
\* the same promise state and response, the same message posted, the same
\* registration and timer.
SameOutcome(s, a, b) ==
  LET ca == a.calls[Len(a.calls)]
      cb == b.calls[Len(b.calls)]
  IN /\ Len(a.calls) = Len(s.calls) + 1 /\ Len(b.calls) = Len(s.calls) + 1
     /\ ca.state = cb.state /\ ca.by = cb.by
     /\ Masked(ca.value, s.nextMessageId) = Masked(cb.value, s.nextMessageId)
     /\ (ca.key = <<>>) = (cb.key = <<>>)
     /\ Len(a.posted) = Len(b.posted)
     /\ Len(a.posted) > Len(s.posted) =>
          Masked(a.posted[Len(a.posted)], s.nextMessageId)
            = Masked(b.posted[Len(b.posted)], s.nextMessageId)
     /\ \A i \in Inst : Cardinality(DOMAIN a.cb[i]) = Cardinality(DOMAIN b.cb[i])
     /\ NewTimers(s, a) = NewTimers(s, b)

\* In this state sendMessage and the typed entry point give the same outcome
\* for every input on which the typed entry point returns.
ConventionApplied ==
  \A i \in Inst, req \in ConventionRequests, host \in CallHosts :
    LET payload == IF req[2].t = "undefined" THEN EmptyObj ELSE req[2]
        typed == TypedEntry(State, i, req[1], payload, host)
    IN ~typed.raised =>
         SameOutcome(State, sendMessage(State, i, req[1], req[2], host),
                     Noted(typed, req[2]))

\* A checkServiceStatus call whose reply reached the window while it was
\* pending resolved with that reply.
StatusReplyResolves ==
  \A k \in DOMAIN calls :
    (calls[k].cmd = "checkServiceStatus" /\ calls[k].replied) =>
      /\ calls[k].state = "resolved"
      /\ calls[k].by = "reply"
      /\ calls[k].value = ReplyTo(calls[k].key)

\* C22: sendMessage on a table command applies the command's calling
\* convention, its outcome being that of the typed entry point called with
\* no argument, the payload, payload.sign, or payload.data and payload.sign;
\* and a valid checkServiceStatus call followed by a matching code-200 reply
\* before the timeout resolves with exactly that reply.
C22_ConventionAndReply == ConventionApplied /\ StatusReplyResolves

\* C23: when an outgoing message is handed to the transport the pending call
\* for its token is already registered, so that a reply delivered at any
\* point after the post, even during it, finds the pending call and settles
\* it.  Stated for the client that owns the listener: every call whose reply
\* reached the window is resolved with that reply and leaves no entry and no
\* timer.
C23_RegisteredBeforePost ==
  \A k \in DOMAIN calls :
    calls[k].replied =>
      /\ calls[k].state = "resolved"
      /\ calls[k].by = "reply"
      /\ calls[k].value = ReplyTo(calls[k].key)
      /\ \A e \in Entries : e[2] # calls[k].key
      /\ \A t \in timers : t.messageId # calls[k].key

\* The commands the design exempts from the timeout.
FireAndForget == {"openURL", "scanQRCode"}

\* The armed timers of the entry <<instance, key>>.
TimersOf(e) == {t \in timers : t.inst = e[1] /\ t.messageId = e[2]}

\* C24: in every reachable state a registry entry has an armed timer if and
\* only if its command is neither openURL nor scanQRCode: those two register
\* a pending call without a timer and are settled only by a reply or by
\* destroy, and every other dispatched command has exactly one timer.
C24_TimerUnlessFireAndForget ==
  /\ \A e \in Entries :
       LET entry == messageCallbacks[e[1]][e[2]]
           k == entry.resolve
       IN /\ calls[k].state = "pending"
          /\ IF calls[k].cmd \in FireAndForget
             THEN entry.timeoutId = NoTimer /\ TimersOf(e) = {}
             ELSE /\ Cardinality(TimersOf(e)) = 1
                  /\ \A t \in TimersOf(e) : t.id = entry.timeoutId
  /\ \A k \in DOMAIN calls :
       (calls[k].cmd \in FireAndForget /\ Dispatched(k)) =>
         /\ calls[k].by \in {"none", "reply", "destroy"}
         /\ calls[k].state = "pending" =>
              calls[k].key \in DOMAIN messageCallbacks[calls[k].inst]

\* An openURL call is registered without a timer next to a timed call, and a
\* scanQRCode call was settled by its reply.
C24_Witness ==
  \E e1, e2 \in Entries :
    /\ calls[messageCallbacks[e1[1]][e1[2]].resolve].cmd = "openURL"
    /\ TimersOf(e1) = {}
    /\ calls[messageCallbacks[e2[1]][e2[2]].resolve].cmd = "getLanguage"
    /\ TimersOf(e2) # {}
    /\ \E k \in DOMAIN calls :
         calls[k].cmd = "scanQRCode" /\ calls[k].by = "reply"

\* The message matches no pending call: it is not an object, has no string
\* messageId, or its token is the key of no registry entry.
MatchesNoCall(data) ==
  \/ ~IsObject(data)
  \/ ~IsString(Get(data, "messageId"))
  \/ \A e \in Entries : e[2] # Get(data, "messageId").v

\* C25: an inbound message that is not an object, has no string messageId,
\* or carries a token that matches no pending call (unknown, already settled
\* by reply, timed out or torn down) leaves the registry, the armed timers
\* and every call's resolution state unchanged and raises no error.
C25_UnmatchedMessageIgnored ==
  \A data \in Messages :
    MatchesNoCall(data) =>
      LET after == AfterDelivery(data) IN
      /\ after.cb = messageCallbacks
      /\ after.timers = timers
      /\ after.calls = calls
      /\ ~after.uncaught

\* destroy() on instance i leaves what the other instances own as it was.
OthersUntouched(i) ==
  /\ \A j \in Inst \ {i} : messageCallbacks'[j] = messageCallbacks[j]
  /\ \A t \in timers : t.inst # i => t \in timers'
  /\ \A t \in timers' : t \in timers
  /\ \A k \in DOMAIN calls : calls[k].inst # i => calls'[k] = calls[k]
  /\ \A k \in DOMAIN calls :
       calls'[k] # calls[k] =>
         /\ calls[k].key \in DOMAIN messageCallbacks[i]
         /\ calls'[k].by = "destroy"

\* The timer armed for call k.
TimerOf(k) ==
  {t \in timers : t.inst = calls[k].inst /\ t.messageId = calls[k].key}

\* The expiry of its timer would settle the pending call k now.
TimeoutWouldSettle(k) ==
  \A t \in TimerOf(k) :
    handleTimeout(State, t.inst, t.messageId, t.cmd).calls[k].by = "timeout"

\* The arrival of its reply would settle the pending call k now.
ReplyWouldSettle(k) ==
  AfterDelivery(ReplyTo(calls[k].key)).calls[k].by = "reply"

\* Every registered call of a live instance other than i can be settled by
\* its reply and, when it has a timer, by its timeout.
OthersStillSettle(i) ==
  \A k \in DOMAIN calls :
    (/\ calls[k].inst # i /\ calls[k].inst \in LiveInst
     /\ calls[k].key \in DOMAIN messageCallbacks[calls[k].inst]) =>
      /\ ReplyWouldSettle(k)
      /\ calls[k].cmd \notin NoTimeoutCommands =>
           TimerOf(k) # {} /\ TimeoutWouldSettle(k)

\* C26: destroy() on one instance leaves the registry, the armed timers and
\* the pending calls of every other instance unchanged: only calls owned by
\* the destroyed instance are settled, and a call of another live instance
\* can still be settled afterwards by its reply or its timeout.
C26_DestroyLeavesOthers ==
  [][\A i \in Inst :
       DestroyOn(i) => OthersUntouched(i) /\ OthersStillSettle(i)']_vars

\* What a construction does to the window's listeners: it installs one when
\* none is installed and leaves the installed one alone otherwise.
InstallsOnlyWhenNone ==
  IF windowListeners = <<>>
  THEN Len(windowListeners') = 1
  ELSE windowListeners' = windowListeners

C28_ValidatorsNeverRaise ==
  \A k \in DOMAIN calls :
    /\ calls[k].by = "caught" =>
         /\ calls[k].cmd \in DOMAIN commandMap
         /\ commandMap[calls[k].cmd] \in {"payloadAndSign", "signOnly"}
         /\ calls[k].arg.t = "null"
    /\ (/\ calls[k].cmd \in {"getAccount", "setExtendedData"}
        /\ Truthy(calls[k].arg) /\ IsPrimitive(calls[k].arg))
         => ResolvedLocally(k, InvalidPayload, "local")

\* The part of the caller's payload the validator of the command is given.
ValidatedInput(cmd, arg) ==
  LET payload == IF arg.t = "undefined" THEN EmptyObj ELSE arg IN
  CASE cmd \notin DOMAIN commandMap -> Undefined
    [] commandMap[cmd] = "payload" -> payload
    [] commandMap[cmd] = "payloadAndSign" -> Get(payload, "data")
    [] commandMap[cmd] = "signOnly" -> Get(payload, "sign")
    [] OTHER -> Undefined

\* The messageId the caller supplied in the validated input of call k.
Supplied(k) == Get(ValidatedInput(calls[k].cmd, calls[k].arg), "messageId")

\* A token the generator has returned.
Minted(id) ==
  IsString(id) /\ \E n \in 1 .. nextMessageId - 1 : id.v = Token(n)

\* The messageId values found in the caller's payload of call k, at any of
\* the places a handler reads one.
CallerIds(k) ==
  {id \in {Get(calls[k].arg, "messageId"),
           Get(Get(calls[k].arg, "data"), "messageId"),
           Get(Get(calls[k].arg, "sign"), "messageId")} : IsString(id)}

\* C29: a local validation rejection carries the messageId the caller
\* supplied in the validated input when one is supplied and a freshly
\* generated token otherwise; a caller-supplied messageId only labels such
\* rejections and never becomes the registry key of a pending call.
C29_CallerIdOnlyLabels ==
  /\ \A k \in DOMAIN calls :
       calls[k].by = "local" =>
         LET id == Get(calls[k].value, "messageId") IN
         IF Truthy(Supplied(k)) THEN id = Supplied(k)
         ELSE /\ Minted(id)
              /\ \A j \in DOMAIN calls :
                   /\ calls[j].key # id.v
                   /\ (j # k /\ calls[j].by = "local")
                        => Get(calls[j].value, "messageId") # id
  /\ \A e \in Entries :
       /\ Minted(Str(e[2]))
       /\ \A k \in DOMAIN calls : Str(e[2]) \notin CallerIds(k)
       /\ calls[messageCallbacks[e[1]][e[2]].resolve].key = e[2]

\* A rejection was labelled with the caller's messageId, and a call whose
\* payload carried the same messageId is registered under a minted token.
C29_Witness ==
  \E j, k \in DOMAIN calls :
    /\ calls[j].by = "local" /\ Get(calls[j].value, "messageId") = Mine
    /\ Supplied(k) = Mine /\ Dispatched(k)
    /\ <<1, calls[k].key>> \in Entries

\* C30: openURL is forwarded to the host if and only if url is a string that
\* starts with https://, is non-empty after trimming and has length at most
\* 200 (200 accepted, 201 rejected), and useSystemOpen is absent or a
\* boolean; every other input is rejected with InvalidPayload (30001).
C30_OpenURLRule ==
  \A k \in DOMAIN calls :
    calls[k].cmd = "openURL" =>
      IF DocPayloadViolation("openURL", calls[k].arg)
      THEN ResolvedLocally(k, InvalidPayload, "local")
      ELSE /\ calls[k].key # <<>>
           /\ calls[k].by \in {"none", "nohost"}
           /\ Dispatched(k) =>
                /\ Get(PostedOf(k), "cmd") = Str(<<"openURL">>)
                /\ Get(PostedOf(k), "data") = calls[k].arg

\* A url of 200 characters was posted and one of 201 rejected.
C30_Witness ==
  \E j, k \in DOMAIN calls :
    /\ calls[j].arg = Obj("url" :> Url(MaxUrlLength - Len(HttpsPrefix)))
    /\ Length(Get(calls[j].arg, "url")) = 200
    /\ Dispatched(j)
    /\ calls[k].arg = Obj("url" :> Url(MaxUrlLength - Len(HttpsPrefix) + 1))
    /\ CodeOf(calls[k].value) = InvalidPayload

\* Call k was rejected by the payload rule of its command.
RejectedAsInvalidPayload(k) == ResolvedLocally(k, InvalidPayload, "local")

\* C31: sendServiceMessage passes its payload rule if and only if content is
\* a keyed structure that is not a sequence (a null, an array and a primitive
\* content are all rejected) and type is the literal string "HTTP";
\* registerService passes if and only if serviceKey is a string that is
\* non-empty after trimming; failures are rejected with InvalidPayload.
C31_ServicePayloadRules ==
  \A k \in DOMAIN calls :
    (/\ calls[k].cmd \in {"sendServiceMessage", "registerService"}
     /\ calls[k].arg.t # "null") =>
      (RejectedAsInvalidPayload(k)
         <=> DocPayloadViolation(calls[k].cmd, Get(calls[k].arg, "data")))

\* The commands of the table that take no input.
NoInputCommands ==
  {"getSafeAreaInsets", "getLanguage", "scanQRCode", "getExtendedData"}

\* C32: getSafeAreaInsets, getLanguage, scanQRCode and getExtendedData never
\* reject locally: whatever payload the caller passes to sendMessage, the
\* call is dispatched to the host with an empty data object, and the caller's
\* payload has no effect on the outgoing message.
C32_NoInputCommandsAlwaysDispatch ==
  \A k \in DOMAIN calls :
    calls[k].cmd \in NoInputCommands =>
      /\ calls[k].key # <<>>
      /\ calls[k].by \in {"none", "nohost"}
      /\ Dispatched(k) =>
           /\ PostedOf(k) = Obj("cmd" :> Str(<<calls[k].cmd>>)
                                @@ "messageId" :> Str(calls[k].key)
                                @@ "data" :> EmptyObj)
           /\ <<calls[k].inst, calls[k].key>> \in Entries

\* scanQRCode was called with a payload that names another command, a
\* messageId and data, and getLanguage with null; both were dispatched.
C32_Witness ==
  \E j, k \in DOMAIN calls :
    /\ calls[j].cmd = "scanQRCode" /\ Has(calls[j].arg, "cmd")
    /\ Has(calls[j].arg, "data") /\ Dispatched(j)
    /\ calls[k].cmd = "getLanguage" /\ calls[k].arg.t = "null"
    /\ Dispatched(k)

\* C33: in every state reachable by constructions and destroy() calls,
\* repeated destroy on one instance included, the static instance counter
\* equals the number of instances constructed and not yet destroyed, and is
\* never negative.
C33_CounterCountsLive ==
  /\ instanceCount = Cardinality(LiveInst)
  /\ instanceCount >= 0

\* The registry entries that record a timeout handle.
TimedEntries == {e \in Entries : messageCallbacks[e[1]][e[2]].timeoutId # NoTimer}

\* C34: in every reachable state the armed timers (not yet fired, not
\* cancelled) correspond one-to-one with the registry entries that record a
\* timeout handle: no timer is armed for a token absent from its instance's
\* registry, and no entry records the handle of a timer that has fired or
\* been cancelled.
C34_TimersMatchEntries ==
  /\ \A t \in timers :
       /\ t.messageId \in DOMAIN messageCallbacks[t.inst]
       /\ messageCallbacks[t.inst][t.messageId].timeoutId = t.id
  /\ \A e \in TimedEntries :
       \E t \in timers :
         /\ t.id = messageCallbacks[e[1]][e[2]].timeoutId
         /\ t.inst = e[1] /\ t.messageId = e[2]
  /\ \A t1, t2 \in timers : t1.id = t2.id => t1 = t2
  /\ Cardinality(timers) = Cardinality(TimedEntries)

\* One call's timer has fired, another's was cancelled by its reply, and a
\* third is armed.
C34_Witness ==
  \E k1, k2, k3 \in DOMAIN calls :
    /\ calls[k1].by = "timeout"
    /\ calls[k2].by = "reply" /\ calls[k2].cmd \notin NoTimeoutCommands
    /\ calls[k3].state = "pending" /\ TimerOf(k3) # {}
    /\ Cardinality(timers) = 1

\* Every call of the live instance i whose reply reached the window while it
\* was pending was settled by that reply.
RepliesSettle(i) ==
  \A k \in DOMAIN calls :
    (calls[k].inst = i /\ calls[k].replied /\ i \in LiveInst) =>
      /\ calls[k].state = "resolved"
      /\ calls[k].by = "reply"
      /\ calls[k].value = ReplyTo(calls[k].key)

\* C35: after every instance has been destroyed and the listener
\* uninstalled, constructing a new instance installs the listener again, and
\* a call made on that new instance is settled by a matching reply delivered
\* afterwards.  In the runs that begin after the teardown of instance 1 the
\* new instance is instance 2.
C35_ReinstallAfterTeardown ==
  [][/\ \A option \in TimeoutOptions :
          (instances = 1 /\ ConstructWith(option)) => windowListeners' = <<2>>
     /\ RepliesSettle(2)']_vars

====
